---- MODULE Spec2Model ----
(***************************************************************************)
(* Model of src/server.js: the connection lifecycle (connectWhatsApp and   *)
(* the connection.update handler), the webhook notifier (sendWebhook and   *)
(* the messages.upsert handler), the authenticate middleware and the       *)
(* Express routing table with its handlers.                                *)
(*                                                                         *)
(* Node runs one handler at a time, so every action is one synchronous     *)
(* run of a callback up to its next await; an awaited network call is a    *)
(* record in an in-flight collection that a later action settles.          *)
(***************************************************************************)
EXTENDS Integers, Sequences, FiniteSets, TLC

\* ------------------------------------------------------------------ bounds
\* sockets created by connectWhatsApp over one run
MaxSockets == 2
\* connectWhatsApp calls suspended at their await plus pending reconnect timers
MaxPending == 2
\* axios.post / sock.sendMessage calls in flight at once
MaxInFlight == 2
\* messages carried by one messages.upsert event
MaxBatch == 2

\* ------------------------------------------------------------ JS values
\* the JavaScript value undefined
Undef == "undefined"

\* JavaScript truthiness of a string-or-undefined value
Truthy(v) == v # Undef /\ v # ""

\* (lastDisconnect?.error)?.output?.statusCode when the closure carries no error
noStatus == 0
\* DisconnectReason.loggedOut of the session library
loggedOut == 401
\* another closure status (DisconnectReason.connectionReplaced)
connectionReplaced == 440
\* delay of the reconnect timer after a closure
ReconnectDelayMs == 3000
\* delay of the retry timer after an exception in connectWhatsApp
RetryDelayMs == 5000

Delays == {ReconnectDelayMs, RetryDelayMs}

\* pairing codes the session library may issue
QrCodes == {"ABC123", "XYZ789"}

\* config.instanceName (INSTANCE_NAME unset)
instanceName == "kore"

VARIABLES
    started,          \* the app.listen callback has run
    sock,             \* global sock: 0 is undefined, n the n-th socket made
    qrDinamic,        \* global qrDinamic: Undef or the last pairing code
    connectionState,  \* global connectionState: "close", "qr", "open"
    isConnected,      \* global isConnected
    webhookUrl,       \* config.webhookUrl
    authKey,          \* config.authKey
    connecting,       \* connectWhatsApp calls suspended at useMultiFileAuthState
    timers,           \* pending setTimeout(connectWhatsApp, d), per delay d
    webhooks,         \* axios.post calls in flight
    sends,            \* sock.sendMessage calls in flight
    seenSock,         \* newest socket whose connection.update was handled
    unhandled         \* the unhandledRejection handler of the process has run

vars == <<started, sock, qrDinamic, connectionState, isConnected, webhookUrl,
          authKey, connecting, timers, webhooks, sends, seenSock, unhandled>>

lifecycle == <<qrDinamic, connectionState, isConnected>>

Pending == connecting + timers[ReconnectDelayMs] + timers[RetryDelayMs]

\* network calls (axios.post, sock.sendMessage) in flight
InFlight == Len(webhooks) + Len(sends)

Init ==
    /\ started = FALSE
    /\ sock = 0
    /\ qrDinamic = Undef
    /\ connectionState = "close"
    /\ isConnected = FALSE
    /\ webhookUrl \in {Undef, "http://hook-a"}
    /\ authKey \in {Undef, "secret"}
    /\ connecting = 0
    /\ timers = [d \in Delays |-> 0]
    /\ webhooks = <<>>
    /\ sends = <<>>
    /\ seenSock = 0
    /\ unhandled = FALSE

\* ------------------------------------------------------- connectWhatsApp

\* mutant: connectWhatsApp resets the connection globals before the setup
connectWhatsApp_resets ==
    /\ connecting' = connecting + 1
    /\ connectionState' = "close"
    /\ isConnected' = FALSE
    /\ UNCHANGED <<sock, qrDinamic>>

\* a call of connectWhatsApp: it runs to `await useMultiFileAuthState` and
\* returns a promise; it touches no global before the await
connectWhatsApp ==
    /\ connecting' = connecting + 1
    /\ UNCHANGED <<sock, qrDinamic, connectionState, isConnected>>

\* setTimeout(connectWhatsApp, d)
setTimeout(d) == [timers EXCEPT ![d] = @ + 1]

\* the app.listen callback
Listen ==
    /\ ~started
    /\ started' = TRUE
    /\ connectWhatsApp
    /\ UNCHANGED <<timers, webhookUrl, authKey, webhooks, sends, seenSock, unhandled>>

\* the awaited setup resolves: makeWASocket, sock assigned, handlers registered
ConnectResume ==
    /\ connecting > 0
    /\ sock < MaxSockets
    /\ sock' = sock + 1
    /\ connecting' = connecting - 1
    /\ UNCHANGED <<started, qrDinamic, connectionState, isConnected, webhookUrl,
                   authKey, timers, webhooks, sends, seenSock, unhandled>>

\* mutant: connectWhatsApp without its try/catch: the exception rejects the
\* promise of the call, which no caller awaits, and no retry is scheduled
ConnectThrow_noCatch ==
    /\ connecting > 0
    /\ connecting' = connecting - 1
    /\ unhandled' = TRUE
    /\ UNCHANGED <<started, sock, qrDinamic, connectionState, isConnected,
                   webhookUrl, authKey, timers, webhooks, sends, seenSock>>

\* useMultiFileAuthState rejects or makeWASocket throws: the catch block
ConnectThrow ==
    /\ connecting > 0
    /\ connecting' = connecting - 1
    /\ timers' = setTimeout(RetryDelayMs)
    /\ UNCHANGED <<started, sock, qrDinamic, connectionState, isConnected,
                   webhookUrl, authKey, webhooks, sends, seenSock, unhandled>>

\* mutant: a due timer is dropped once a socket exists
TimerFire_onlyWithoutSocket(d) ==
    /\ timers[d] > 0
    /\ sock = 0
    /\ timers' = [timers EXCEPT ![d] = @ - 1]
    /\ connectWhatsApp
    /\ UNCHANGED <<started, webhookUrl, authKey, webhooks, sends, seenSock, unhandled>>

\* a reconnect or retry timer fires and calls connectWhatsApp
TimerFire(d) ==
    /\ timers[d] > 0
    /\ timers' = [timers EXCEPT ![d] = @ - 1]
    /\ connectWhatsApp
    /\ UNCHANGED <<started, webhookUrl, authKey, webhooks, sends, seenSock, unhandled>>

\* ------------------------------------------- connection.update handler

\* the updates a socket may emit: a pairing code, a connection value and,
\* with a closure, the status code of lastDisconnect.error
Updates ==
    { [qr |-> q, connection |-> c, statusCode |-> sc] :
        q \in {Undef} \cup QrCodes,
        c \in {Undef, "connecting", "open"},
        sc \in {noStatus} }
    \cup
    { [qr |-> q, connection |-> "close", statusCode |-> sc] :
        q \in {Undef} \cup QrCodes,
        sc \in {noStatus, loggedOut, connectionReplaced} }

\* mutant: every closure reconnects
shouldReconnect_always(update) == TRUE

\* (lastDisconnect?.error)?.output?.statusCode !== DisconnectReason.loggedOut
shouldReconnect(update) == update.statusCode # loggedOut

\* if (qr) { qrDinamic = qr; connectionState = 'qr' }
onQr(g, update) ==
    IF Truthy(update.qr)
    THEN [g EXCEPT !.qrDinamic = update.qr, !.connectionState = "qr"]
    ELSE g

\* if (connection === 'open') { connectionState = 'open'; isConnected = true }
onOpen(g, update) ==
    IF update.connection = "open"
    THEN [g EXCEPT !.connectionState = "open", !.isConnected = TRUE]
    ELSE g

\* if (connection === 'close') { ...; if (shouldReconnect) setTimeout(...) }
onClose(g, update) ==
    IF update.connection = "close"
    THEN [g EXCEPT !.connectionState = "close", !.isConnected = FALSE,
                   !.timers = IF shouldReconnect(update)
                              THEN [@ EXCEPT ![ReconnectDelayMs] = @ + 1]
                              ELSE @]
    ELSE g

\* the three ifs of the handler, in order
connectionUpdate(g, update) == onClose(onOpen(onQr(g, update), update), update)

Globals ==
    [qrDinamic |-> qrDinamic, connectionState |-> connectionState,
     isConnected |-> isConnected, timers |-> timers]

\* socket s emits a connection.update event; the handler registered on it runs
ConnectionUpdate(s, update) ==
    LET g == connectionUpdate(Globals, update) IN
    /\ s \in 1..sock
    /\ (update.connection = "close" /\ shouldReconnect(update))
         => Pending < MaxPending
    /\ qrDinamic' = g.qrDinamic
    /\ connectionState' = g.connectionState
    /\ isConnected' = g.isConnected
    /\ timers' = g.timers
    /\ seenSock' = IF s > seenSock THEN s ELSE seenSock
    /\ UNCHANGED <<started, sock, webhookUrl, authKey, connecting, webhooks,
                   sends, unhandled>>

\* ------------------------------------------------------ webhook notifier

\* inbound messages: key.remoteJid, key.fromMe, and whether message.message
\* is set
Messages ==
    [remoteJid : {"jid-a"}, fromMe : BOOLEAN, hasMessage : BOOLEAN]

\* the messages arrays of a messages.upsert event: up to MaxBatch messages
Batches == UNION { [1..n -> Messages] : n \in 0..MaxBatch }

RemoveAt(q, i) == SubSeq(q, 1, i - 1) \o SubSeq(q, i + 1, Len(q))

\* mutant: the unset-URL guard is missing
sendWebhook_noGuard(data) ==
    [posts |-> Append(webhooks, [url |-> webhookUrl, destination |-> webhookUrl,
                                 sender |-> data.remoteJid, data |-> data]),
     threw |-> FALSE]

\* mutant: the payload's destination is the URL the process started with
sendWebhook_destinationFromEnv(data) ==
    IF ~Truthy(webhookUrl)
    THEN [posts |-> webhooks, threw |-> FALSE]
    ELSE [posts |-> Append(webhooks, [url |-> webhookUrl,
                                      destination |-> "http://hook-a",
                                      sender |-> data.remoteJid,
                                      data |-> data]),
          threw |-> FALSE]

\* sendWebhook(data), up to its await: the axios.post calls in flight after
\* the call, and whether the call threw. The URL posted to and the payload's
\* destination are both read before the await; the payload is built inside
\* the try block, so nothing escapes it
sendWebhook(data) ==
    IF ~Truthy(webhookUrl)
    THEN [posts |-> webhooks, threw |-> FALSE]
    ELSE [posts |-> Append(webhooks, [url |-> webhookUrl,
                                      destination |-> webhookUrl,
                                      sender |-> data.remoteJid,
                                      data |-> data]),
          threw |-> FALSE]

\* mutant: the handler forwards messages[0] without looking at key.fromMe
MessagesUpsert_noFilter(s, messages) ==
    /\ s \in 1..sock
    /\ webhooks' =
         IF Len(messages) = 0
         THEN webhooks
         ELSE LET message == messages[1] IN
              IF message.hasMessage
              THEN sendWebhook(message).posts
              ELSE webhooks
    /\ Len(webhooks') + Len(sends) <= MaxInFlight
    /\ unhandled' = (unhandled \/ Len(messages) = 0)
    /\ UNCHANGED <<started, sock, qrDinamic, connectionState, isConnected,
                   webhookUrl, authKey, connecting, timers, sends, seenSock>>

\* mutant: the handler takes no event while a delivery is in flight
MessagesUpsert_serialized(s, messages) ==
    /\ s \in 1..sock
    /\ webhooks = <<>>
    /\ webhooks' =
         IF Len(messages) = 0
         THEN webhooks
         ELSE LET message == messages[1] IN
              IF ~message.fromMe /\ message.hasMessage
              THEN sendWebhook(message).posts
              ELSE webhooks
    /\ Len(webhooks') + Len(sends) <= MaxInFlight
    /\ unhandled' = (unhandled \/ Len(messages) = 0)
    /\ UNCHANGED <<started, sock, qrDinamic, connectionState, isConnected,
                   webhookUrl, authKey, connecting, timers, sends, seenSock>>

\* the messages.upsert handler on socket s: message = m.messages[0]; an empty
\* array makes message.key throw inside the async handler, which rejects the
\* promise the emitter drops: the unhandledRejection handler logs it
MessagesUpsert(s, messages) ==
    /\ s \in 1..sock
    /\ webhooks' =
         IF Len(messages) = 0
         THEN webhooks
         ELSE LET message == messages[1] IN
              IF ~message.fromMe /\ message.hasMessage
              THEN sendWebhook(message).posts
              ELSE webhooks
    /\ Len(webhooks') + Len(sends) <= MaxInFlight
    /\ unhandled' = (unhandled \/ Len(messages) = 0)
    /\ UNCHANGED <<started, sock, qrDinamic, connectionState, isConnected,
                   webhookUrl, authKey, connecting, timers, sends, seenSock>>

\* mutant: sendWebhook without its try/catch: a rejected axios.post rejects
\* sendWebhook's promise and, through the await, the handler's promise
WebhookSettle_noCatch(i, ok) ==
    /\ i \in 1..Len(webhooks)
    /\ webhooks' = RemoveAt(webhooks, i)
    /\ unhandled' = (unhandled \/ ~ok)
    /\ UNCHANGED <<started, sock, qrDinamic, connectionState, isConnected,
                   webhookUrl, authKey, connecting, timers, sends, seenSock>>

\* an in-flight axios.post resolves (ok) or rejects (connection refused,
\* non-2xx response, timeout): the try branch and the catch branch only log,
\* sendWebhook's promise resolves, and the handler awaiting it ends
WebhookSettle(i, ok) ==
    /\ i \in 1..Len(webhooks)
    /\ webhooks' = RemoveAt(webhooks, i)
    /\ UNCHANGED <<started, sock, qrDinamic, connectionState, isConnected,
                   webhookUrl, authKey, connecting, timers, sends, seenSock,
                   unhandled>>

\* ---------------------------------------------------------- API surface

\* const apikey = req.headers['apikey'] || req.query.apikey;
\* if (apikey !== config.authKey) return 401
authenticate(req) ==
    LET apikey == IF Truthy(req.header) THEN req.header ELSE req.query
    IN  apikey = authKey

\* the routing table in registration order; a ":" segment is a parameter
Params == {":instanceName", ":messageId"}

Routes == <<
    [method |-> "GET",  path |-> <<>>,                          auth |-> FALSE, handler |-> "GetRoot"],
    [method |-> "GET",  path |-> <<"health">>,                  auth |-> FALSE, handler |-> "GetHealth"],
    [method |-> "GET",  path |-> <<"instance">>,                auth |-> TRUE,  handler |-> "GetInstance"],
    [method |-> "GET",  path |-> <<"instance", ":instanceName">>, auth |-> TRUE, handler |-> "GetInstanceByName"],
    [method |-> "POST", path |-> <<"instance", "create">>,      auth |-> TRUE,  handler |-> "PostInstanceCreate"],
    [method |-> "GET",  path |-> <<"instance", "qr">>,          auth |-> TRUE,  handler |-> "GetInstanceQr"],
    [method |-> "GET",  path |-> <<"qr">>,                      auth |-> FALSE, handler |-> "GetQr"],
    [method |-> "GET",  path |-> <<"instance", "status">>,      auth |-> TRUE,  handler |-> "GetInstanceStatus"],
    [method |-> "POST", path |-> <<"instance", "connect">>,     auth |-> TRUE,  handler |-> "PostInstanceConnect"],
    [method |-> "POST", path |-> <<"message", "text">>,         auth |-> TRUE,  handler |-> "PostMessageText"],
    [method |-> "POST", path |-> <<"sendText", ":instanceName">>, auth |-> TRUE, handler |-> "PostSendText"],
    [method |-> "POST", path |-> <<"messages-api">>,            auth |-> TRUE,  handler |-> "PostMessagesApi"],
    [method |-> "GET",  path |-> <<"message", "media", ":messageId">>, auth |-> TRUE, handler |-> "GetMessageMedia"],
    [method |-> "GET",  path |-> <<"chat-api", "get-media-base64", ":instanceName", ":messageId">>,
                                                                 auth |-> TRUE,  handler |-> "GetChatApiMedia"],
    [method |-> "POST", path |-> <<"webhook", ":instanceName">>, auth |-> TRUE,  handler |-> "PostWebhook"]
>>

\* Express matches a route when the method and every segment match
Matches(route, req) ==
    /\ route.method = req.method
    /\ Len(route.path) = Len(req.path)
    /\ \A i \in 1..Len(route.path) :
         route.path[i] \in Params \/ route.path[i] = req.path[i]

\* req.params[name] under a matching route
Param(route, req, name) ==
    LET i == CHOOSE i \in 1..Len(route.path) : route.path[i] = name
    IN  req.path[i]

\* the outcome of a handler: the HTTP status, the body's error field ("none"
\* when the body has none), its message or shape, and what the handler did
\* besides answering ("connect", "send", "webhook" with the new url)
Reply(status, error, body) ==
    [status |-> status, error |-> error, body |-> body, effect |-> "none",
     url |-> Undef]

NotFound == Reply(404, "true", "Instance not found")
NotConnected == Reply(400, "true", "WhatsApp not connected")
Media == Reply(200, "false", "media")
\* `await sock.sendMessage(...)`: the response is written when the call settles
SendMessage == [Reply(0, "none", "pending") EXCEPT !.effect = "send"]

\* app.get('/')
GetRoot == Reply(200, "none", "online")

\* app.get('/health')
GetHealth == Reply(200, "none", "ok")

\* app.get('/instance')
GetInstance == Reply(200, "none", "instances")

\* app.get('/instance/:instanceName')
GetInstanceByName(name) ==
    IF name # instanceName THEN NotFound
    ELSE Reply(200, "none", "instance")

\* app.post('/instance/create')
PostInstanceCreate(body) ==
    IF body.instanceName # instanceName
    THEN Reply(400, "true", "Instance name must match configured instance")
    ELSE [Reply(200, "false", "Instance created successfully")
            EXCEPT !.effect = "connect"]

\* app.get('/instance/qr'); qrcode.toDataURL renders the cached code
GetInstanceQr ==
    IF connectionState = "open"
    THEN Reply(200, "false", "Instance already connected")
    ELSE IF Truthy(qrDinamic)
         THEN Reply(200, "false", "QR Code generated")
         ELSE Reply(200, "true", "QR Code not available. Try reconnecting.")

\* app.get('/qr'): the same three cases as HTML pages
GetQr ==
    IF connectionState = "open"
    THEN Reply(200, "none", "WhatsApp Connected")
    ELSE IF Truthy(qrDinamic)
         THEN Reply(200, "none", "Conectar WhatsApp")
         ELSE Reply(200, "none", "Generando QR...")

\* app.get('/instance/status')
GetInstanceStatus == Reply(200, "none", "status")

\* app.post('/instance/connect')
PostInstanceConnect ==
    [Reply(200, "false", "Connection initiated") EXCEPT !.effect = "connect"]

\* app.post('/message/text')
PostMessageText ==
    IF ~isConnected THEN NotConnected ELSE SendMessage

\* app.post('/sendText/:instanceName')
PostSendText(name) ==
    IF name # instanceName THEN NotFound
    ELSE IF ~isConnected THEN NotConnected ELSE SendMessage

\* app.post('/messages-api')
PostMessagesApi(body) ==
    IF Truthy(body.instanceName) /\ body.instanceName # instanceName
    THEN NotFound
    ELSE IF ~isConnected THEN NotConnected ELSE SendMessage

\* app.get('/message/media/:messageId')
GetMessageMedia == Media

\* app.get('/chat-api/get-media-base64/:instanceName/:messageId')
GetChatApiMedia(name) ==
    IF name # instanceName THEN NotFound ELSE Media

\* app.post('/webhook/:instanceName'): `if (url) config.webhookUrl = url`;
\* body.enabled is read only for the answer's webhook.enabled field
PostWebhook(name, body) ==
    IF name # instanceName THEN NotFound
    ELSE [Reply(200, "false", "Webhook configured successfully")
            EXCEPT !.effect = IF Truthy(body.url) THEN "webhook" ELSE "none",
                   !.url = body.url]
         @@ [enabled |-> body.enabled # "false"]

\* the handler of a route, run on a request
Handle(route, req) ==
    LET h == route.handler IN
    CASE h = "GetRoot"             -> GetRoot
      [] h = "GetHealth"           -> GetHealth
      [] h = "GetInstance"         -> GetInstance
      [] h = "GetInstanceByName"   -> GetInstanceByName(Param(route, req, ":instanceName"))
      [] h = "PostInstanceCreate"  -> PostInstanceCreate(req.body)
      [] h = "GetInstanceQr"       -> GetInstanceQr
      [] h = "GetQr"               -> GetQr
      [] h = "GetInstanceStatus"   -> GetInstanceStatus
      [] h = "PostInstanceConnect" -> PostInstanceConnect
      [] h = "PostMessageText"     -> PostMessageText
      [] h = "PostSendText"        -> PostSendText(Param(route, req, ":instanceName"))
      [] h = "PostMessagesApi"     -> PostMessagesApi(req.body)
      [] h = "GetMessageMedia"     -> GetMessageMedia
      [] h = "GetChatApiMedia"     -> GetChatApiMedia(Param(route, req, ":instanceName"))
      [] h = "PostWebhook"         -> PostWebhook(Param(route, req, ":instanceName"), req.body)

\* the apikey header and the apikey query parameter of a request
Credentials ==
    { [header |-> Undef, query |-> Undef], [header |-> "secret", query |-> Undef],
      [header |-> "wrong", query |-> Undef], [header |-> "", query |-> "secret"] }

NoBody == [instanceName |-> Undef, url |-> Undef, enabled |-> Undef]

\* request bodies; "false" stands for the JSON literal false
Bodies ==
    [instanceName : {Undef, instanceName, "other"},
     url : {Undef, "http://hook-a", "http://hook-b"},
     enabled : {Undef, "false"}]

GetPaths ==
    { <<>>, <<"health">>, <<"instance">>, <<"instance", instanceName>>,
      <<"instance", "other">>, <<"instance", "qr">>, <<"instance", "status">>,
      <<"qr">>, <<"message", "media", "m1">>,
      <<"chat-api", "get-media-base64", instanceName, "m1">>,
      <<"chat-api", "get-media-base64", "other", "m1">>, <<"nosuch">> }

PostPaths ==
    { <<"instance", "create">>, <<"instance", "connect">>, <<"message", "text">>,
      <<"sendText", instanceName>>, <<"sendText", "other">>, <<"messages-api">>,
      <<"webhook", instanceName>>, <<"webhook", "other">> }

\* the body fields a POST handler reads
BodiesOf(path) ==
    IF path \in {<<"instance", "create">>, <<"messages-api">>}
    THEN { b \in Bodies : b.url = Undef /\ b.enabled = Undef }
    ELSE IF path[1] = "webhook"
         THEN { b \in Bodies : b.instanceName = Undef }
         ELSE {NoBody}

Requests ==
    { [method |-> "GET", path |-> p, header |-> c.header, query |-> c.query,
       body |-> NoBody] : p \in GetPaths, c \in Credentials }
    \cup
    UNION { { [method |-> "POST", path |-> p, header |-> c.header,
               query |-> c.query, body |-> b] : c \in Credentials, b \in BodiesOf(p) }
            : p \in PostPaths }

\* Express runs the first registered route that matches: its index in the
\* table, 0 when no route matches
FirstMatch(req) ==
    LET hits == { i \in 1..Len(Routes) : Matches(Routes[i], req) } IN
    IF hits = {} THEN 0 ELSE CHOOSE i \in hits : \A j \in hits : i <= j

\* the routing of every request; the table is fixed once the process listens
RouteIndex == [req \in Requests |-> FirstMatch(req)]

\* one request through Express: the matched route's authenticate, then its
\* handler; every handler of this table answers without calling next(), so
\* no later route runs
Dispatch(req) ==
    LET i == RouteIndex[req] IN
    IF i = 0
    THEN Reply(404, "none", "Cannot " \o req.method) @@ [ran |-> "none"]
    ELSE LET route == Routes[i]
         IN  IF route.auth /\ ~authenticate(req)
             THEN Reply(401, "none", "Unauthorized") @@ [ran |-> "authenticate"]
             ELSE Handle(route, req) @@ [ran |-> route.handler]

\* what a send route answers when its sock.sendMessage settles: 200 with the
\* message id, or 500 with the error's message from the catch block
SendReply(ok) ==
    IF ok THEN Reply(200, "false", "Message sent successfully")
    ELSE Reply(500, "true", "error.message")

\* mutant: the QR routes clear the cached pairing code once it was served
Http_clearsQr(req) ==
    LET r == Dispatch(req) IN
    /\ started
    /\ r.effect = "connect" => Pending < MaxPending
    /\ r.effect = "send" => InFlight < MaxInFlight
    /\ IF r.effect = "connect"
       THEN connectWhatsApp
       ELSE /\ qrDinamic' = IF r.ran \in {"GetInstanceQr", "GetQr"}
                            THEN Undef ELSE qrDinamic
            /\ UNCHANGED <<connecting, sock, connectionState, isConnected>>
    /\ sends' = IF r.effect = "send"
                THEN Append(sends, [sock |-> sock])
                ELSE sends
    /\ webhookUrl' = IF r.effect = "webhook" THEN r.url ELSE webhookUrl
    /\ UNCHANGED <<started, authKey, timers, webhooks, seenSock, unhandled>>

\* one HTTP request, from routing to the end of the handler's synchronous run
Http(req) ==
    LET r == Dispatch(req) IN
    /\ started
    /\ r.effect = "connect" => Pending < MaxPending
    /\ r.effect = "send" => InFlight < MaxInFlight
    /\ IF r.effect = "connect"
       THEN connectWhatsApp
       ELSE UNCHANGED <<connecting, sock, qrDinamic, connectionState, isConnected>>
    /\ sends' = IF r.effect = "send"
                THEN Append(sends, [sock |-> sock])
                ELSE sends
    /\ webhookUrl' = IF r.effect = "webhook" THEN r.url ELSE webhookUrl
    /\ UNCHANGED <<started, authKey, timers, webhooks, seenSock, unhandled>>

\* mutant: a failed send marks the connection closed
SendSettle_marksClosed(i, ok) ==
    /\ i \in 1..Len(sends)
    /\ sends' = RemoveAt(sends, i)
    /\ connectionState' = IF ok THEN connectionState ELSE "close"
    /\ isConnected' = (ok /\ isConnected)
    /\ UNCHANGED <<started, sock, qrDinamic, webhookUrl, authKey, connecting,
                   timers, webhooks, seenSock, unhandled>>

\* an in-flight sock.sendMessage settles and the route answers SendReply(ok)
SendSettle(i, ok) ==
    /\ i \in 1..Len(sends)
    /\ sends' = RemoveAt(sends, i)
    /\ UNCHANGED <<started, sock, qrDinamic, connectionState, isConnected,
                   webhookUrl, authKey, connecting, timers, webhooks, seenSock, unhandled>>

\* ------------------------------------------------------- specification

Next ==
    \/ Listen
    \/ ConnectResume
    \/ ConnectThrow
    \/ \E d \in Delays : TimerFire(d)
    \/ \E s \in 1..MaxSockets, update \in Updates : ConnectionUpdate(s, update)
    \/ \E s \in 1..MaxSockets, messages \in Batches : MessagesUpsert(s, messages)
    \/ \E i \in 1..MaxInFlight, ok \in BOOLEAN : WebhookSettle(i, ok)
    \/ \E req \in Requests : Http(req)
    \/ \E i \in 1..MaxInFlight, ok \in BOOLEAN : SendSettle(i, ok)

Spec == Init /\ [][Next]_vars

\* the requests to the two routes that call connectWhatsApp
ConnectRequests ==
    { req \in Requests :
        req.path \in {<<"instance", "connect">>, <<"instance", "create">>} }

\* the requests to the webhook route
WebhookRequests == { req \in Requests : req.method = "POST" /\ req.path[1] = "webhook" }

\* the connection lifecycle alone: setup, timers, lifecycle events and the
\* connect requests
LifecycleNext ==
    \/ Listen
    \/ ConnectResume
    \/ ConnectThrow
    \/ \E d \in Delays : TimerFire(d)
    \/ \E s \in 1..MaxSockets, update \in Updates : ConnectionUpdate(s, update)
    \/ \E req \in ConnectRequests : Http(req)

LifecycleSpec == Init /\ [][LifecycleNext]_vars

\* the timers fire: Node's event loop runs every timer that is due
LifecycleLive == LifecycleSpec /\ \A d \in Delays : WF_vars(TimerFire(d))

\* the webhook notifier alone: sockets, inbound messages, deliveries, the
\* webhook reconfiguration and the connect requests
NotifierNext ==
    \/ Listen
    \/ ConnectResume
    \/ ConnectThrow
    \/ \E d \in Delays : TimerFire(d)
    \/ \E s \in 1..MaxSockets, messages \in Batches : MessagesUpsert(s, messages)
    \/ \E i \in 1..MaxInFlight, ok \in BOOLEAN : WebhookSettle(i, ok)
    \/ \E req \in WebhookRequests \cup ConnectRequests : Http(req)

NotifierSpec == Init /\ [][NotifierNext]_vars

\* the API surface beside the lifecycle: sockets, lifecycle events, every
\* request and the settling of the sends
ApiNext ==
    \/ Listen
    \/ ConnectResume
    \/ \E s \in 1..MaxSockets, update \in Updates : ConnectionUpdate(s, update)
    \/ \E req \in Requests : Http(req)
    \/ \E i \in 1..MaxInFlight, ok \in BOOLEAN : SendSettle(i, ok)

ApiSpec == Init /\ [][ApiNext]_vars

\* the requests to the three send routes
SendRequests ==
    { req \in Requests :
        req.path \in {<<"message", "text">>, <<"sendText", instanceName>>,
                      <<"messages-api">>} }

\* the suspending calls beside the lifecycle: sockets, reconnects, lifecycle
\* events, inbound messages and their deliveries, send requests and their
\* sends
DeliveryNext ==
    \/ Listen
    \/ ConnectResume
    \/ TimerFire(ReconnectDelayMs)
    \/ \E s \in 1..MaxSockets, update \in Updates : ConnectionUpdate(s, update)
    \/ \E s \in 1..MaxSockets, messages \in Batches : MessagesUpsert(s, messages)
    \/ \E i \in 1..MaxInFlight, ok \in BOOLEAN : WebhookSettle(i, ok)
    \/ \E req \in SendRequests : Http(req)
    \/ \E i \in 1..MaxInFlight, ok \in BOOLEAN : SendSettle(i, ok)

DeliverySpec == Init /\ [][DeliveryNext]_vars

\* the suspending calls on the socket of the first attempt: DeliverySpec
\* without the reconnects
SuspendNext ==
    \/ Listen
    \/ ConnectResume
    \/ \E s \in 1..MaxSockets, update \in Updates : ConnectionUpdate(s, update)
    \/ \E s \in 1..MaxSockets, messages \in Batches : MessagesUpsert(s, messages)
    \/ \E i \in 1..MaxInFlight, ok \in BOOLEAN : WebhookSettle(i, ok)
    \/ \E req \in SendRequests : Http(req)
    \/ \E i \in 1..MaxInFlight, ok \in BOOLEAN : SendSettle(i, ok)

SuspendSpec == Init /\ [][SuspendNext]_vars

\* ------------------------------------------------------------- claims

\* the transition table of the lifecycle: the state after one event
Table(state, update) ==
    IF Truthy(update.qr)
    THEN (IF state = "close" THEN "qr" ELSE state)
    ELSE IF update.connection = "open" THEN "open"
    ELSE IF update.connection = "close" THEN "close"
    ELSE state

\* updates that carry one lifecycle event: a pairing code, opened, or closed
SimpleUpdates ==
    { u \in Updates : Truthy(u.qr) => u.connection = Undef }

\* C1: after every connection.update event, connectionState is the state the
\* transition table gives for the state before and the event: no transition
\* outside the table (such as connected -> awaiting_pairing) is taken
C1_FollowsTable ==
    [][\A s \in 1..MaxSockets, u \in SimpleUpdates :
         ConnectionUpdate(s, u) => connectionState' = Table(connectionState, u)]_vars

\* C2: an event of an earlier socket handled after an event of a newer socket
\* changes none of connectionState, isConnected, qrDinamic
C2_StaleEventIgnored ==
    [][\A s \in 1..MaxSockets, u \in Updates :
         (ConnectionUpdate(s, u) /\ s < seenSock) => UNCHANGED lifecycle]_vars

\* C3: a closed event with the logged-out reason schedules no timer and leaves
\* the state disconnected; a closed event with any other reason, or with no
\* error at all, schedules exactly one reconnect timer
C3_ReconnectUnlessLoggedOut ==
    [][\A s \in 1..MaxSockets, u \in Updates :
         (ConnectionUpdate(s, u) /\ u.connection = "close") =>
            IF u.statusCode = loggedOut
            THEN timers' = timers /\ connectionState' = "close" /\ ~isConnected'
            ELSE /\ timers' = [timers EXCEPT ![ReconnectDelayMs] = @ + 1]
                 /\ connectionState' = "close"]_vars

\* C3 witness: a closure without the logged-out reason has scheduled a timer
C3_Witness ==
    /\ connectionState = "close"
    /\ timers[ReconnectDelayMs] = 1
    /\ seenSock >= 1

\* a timer of delay d fires and starts a connectWhatsApp attempt
AttemptStarts(d) ==
    /\ timers' = [timers EXCEPT ![d] = @ - 1]
    /\ connecting' = connecting + 1

\* C4: a closure without the logged-out reason and an exception in
\* connectWhatsApp each leave a timer pending, and no timer stays pending
\* for ever: either attempts start again and again, or from some point on
\* every timer has fired, however many attempts failed before
C4_NeverStopsRetrying ==
    /\ [][\A s \in 1..MaxSockets, u \in Updates :
            (ConnectionUpdate(s, u) /\ u.connection = "close"
               /\ u.statusCode # loggedOut)
            => timers'[ReconnectDelayMs] = timers[ReconnectDelayMs] + 1]_vars
    /\ [][ConnectThrow => timers'[RetryDelayMs] = timers[RetryDelayMs] + 1]_vars
    /\ \A d \in Delays :
          <>[](timers[d] = 0) \/ []<><<AttemptStarts(d)>>_vars

\* C4 witness: both timers are pending, one scheduled by a closure and one
\* by an exception in connectWhatsApp
C4_Witness ==
    /\ timers[RetryDelayMs] = 1
    /\ timers[ReconnectDelayMs] = 1
    /\ connecting = 0

\* a request that reaches requestConnect: POST /instance/connect, or
\* POST /instance/create with the configured instance name
RequestConnect(req) ==
    /\ req.method = "POST"
    /\ \/ Dispatch(req).ran = "PostInstanceConnect"
       \/ /\ Dispatch(req).ran = "PostInstanceCreate"
          /\ req.body.instanceName = instanceName

\* C5: requestConnect while connected leaves connectionState, isConnected and
\* qrDinamic as they are and answers with a success response
C5_ConnectWhileConnected ==
    [][\A req \in ConnectRequests :
         (connectionState = "open" /\ RequestConnect(req) /\ Http(req)) =>
            /\ UNCHANGED lifecycle
            /\ Dispatch(req).status = 200
            /\ Dispatch(req).error = "false"
            /\ connecting' = connecting + 1]_vars

\* C5 witness: connected on the newest socket while connectWhatsApp calls are
\* in progress again
C5_Witness ==
    /\ connectionState = "open"
    /\ isConnected
    /\ connecting = MaxPending
    /\ sock = seenSock

\* the requests to the two QR endpoints
QrRequests ==
    { req \in Requests : req.path \in {<<"instance", "qr">>, <<"qr">>} }

\* an authenticated GET /instance/qr
GetsInstanceQr(req) ==
    /\ req.method = "GET"
    /\ req.path = <<"instance", "qr">>
    /\ authenticate(req)

\* C6: while connected, an authenticated GET /instance/qr is answered
\* {error:false, connected:true}, never with a QR payload or a not-found error
C6_QrWhileConnected ==
    \A req \in QrRequests :
        (started /\ GetsInstanceQr(req) /\ connectionState = "open") =>
            /\ Dispatch(req).status = 200
            /\ Dispatch(req).error = "false"
            /\ Dispatch(req).body = "Instance already connected"

\* the responses that carry the rendered pairing artifact
ServesArtifact(r) == r.body \in {"QR Code generated", "Conectar WhatsApp"}

\* C7: after every lifecycle event, the QR endpoints serve a pairing artifact
\* only if the state is awaiting_pairing
C7_ArtifactOnlyWhileAwaiting ==
    [][\A s \in 1..MaxSockets, u \in SimpleUpdates :
         ConnectionUpdate(s, u) =>
            \A req \in QrRequests :
                ServesArtifact(Dispatch(req))' => connectionState' = "qr"]_vars

\* a request that reaches a send handler with a matching instance name
SendRequest(req) ==
    /\ Truthy(authKey)
    /\ Dispatch(req).ran \in {"PostMessageText", "PostSendText", "PostMessagesApi"}
    /\ Dispatch(req).status # 404

\* C8: a send request made while the state is not connected is answered 400
\* and starts no sock.sendMessage call
C8_NoSendUnlessConnected ==
    [][\A req \in SendRequests :
         (connectionState # "open" /\ SendRequest(req) /\ Http(req)) =>
            Dispatch(req).status = 400 /\ sends' = sends]_vars

\* a request to a route registered with authenticate
Guarded(req) ==
    \E i \in 1..Len(Routes) :
        /\ Matches(Routes[i], req)
        /\ \A j \in 1..(i - 1) : ~Matches(Routes[j], req)
        /\ Routes[i].auth

\* the apikey header and the apikey query parameter are each missing or
\* different from the configured secret
BadCredentials(req) ==
    /\ req.header = Undef \/ req.header # authKey
    /\ req.query = Undef \/ req.query # authKey

\* C9: on a guarded route, a request with bad credentials gets 401 and
\* changes nothing, whatever the configured secret is
C9_BadCredentialsRejected ==
    [][\A req \in Requests :
         (BadCredentials(req) /\ Guarded(req) /\ Http(req)) =>
            Dispatch(req).status = 401 /\ UNCHANGED vars]_vars

\* C10: with config.webhookUrl unset, sendWebhook starts no axios.post and
\* does not throw, and no step that changes the posts in flight is a run of
\* the messages.upsert handler
C10_NoUrlNoPost ==
    /\ [](\A data \in Messages :
            webhookUrl = Undef =>
              sendWebhook(data) = [posts |-> webhooks, threw |-> FALSE])
    /\ [][(webhookUrl = Undef /\ webhooks' # webhooks) =>
            ~\E s \in 1..MaxSockets, m \in Batches : MessagesUpsert(s, m)]_vars

\* C10 witness: a socket is live to deliver messages and no URL is configured
C10_Witness ==
    /\ webhookUrl = Undef
    /\ sock >= 1
    /\ webhooks = <<>>

\* every event a live socket can emit is handled when it arrives: the
\* handlers have no guard; the side conditions are the bounds of the model
EventsProcessed ==
    \A s \in 1..sock :
        /\ \A u \in Updates :
              ((u.connection = "close" /\ shouldReconnect(u)) => Pending < MaxPending)
                 => ENABLED ConnectionUpdate(s, u)
        /\ \A m \in Batches :
              InFlight < MaxInFlight => ENABLED MessagesUpsert(s, m)

\* C11: a failed axios.post is not raised out of sendWebhook (no promise is
\* rejected), leaves the connection state, the sockets and the timers as they
\* are, is removed without a new delivery taking its place, and events that
\* arrive afterwards are handled
C11_FailureSwallowed ==
    /\ [][\A i \in 1..MaxInFlight :
            WebhookSettle(i, FALSE) =>
               /\ unhandled' = unhandled
               /\ UNCHANGED <<lifecycle, sock, timers, connecting, sends>>
               /\ webhooks' = RemoveAt(webhooks, i)]_vars
    /\ []EventsProcessed

\* C11 witness: connected, with a delivery in flight that may fail and no
\* rejection logged so far
C11_Witness ==
    /\ Len(webhooks) = 1
    /\ isConnected
    /\ ~unhandled

\* C12: every message handed to axios.post has key.fromMe false, and a
\* messages.upsert event whose message is self-sent starts no post
C12_SelfSentNeverForwarded ==
    /\ [](\A i \in 1..Len(webhooks) : ~webhooks[i].data.fromMe)
    /\ [][\A s \in 1..MaxSockets, m \in Batches :
            (webhooks' # webhooks /\ MessagesUpsert(s, m)) =>
               /\ ~m[1].fromMe
               /\ webhooks' = Append(webhooks, webhooks'[Len(webhooks')])
               /\ webhooks'[Len(webhooks')].data = m[1]]_vars

\* C12 witness: two inbound messages are on their way to the webhook, both
\* with key.fromMe false
C12_Witness ==
    /\ Len(webhooks) = 2
    /\ \A i \in 1..2 : ~webhooks[i].data.fromMe /\ webhooks[i].data.hasMessage

\* the messages of an event that are inbound: not self-sent, with content
Inbound(m) == { k \in 1..Len(m) : ~m[k].fromMe /\ m[k].hasMessage }

\* C13: with a webhook URL configured, a messages.upsert event starts one
\* post for each of its inbound messages, whichever socket delivers it
C13_ForwardedExactlyOnce ==
    [][\A s \in 1..MaxSockets, m \in Batches :
         (Truthy(webhookUrl) /\ MessagesUpsert(s, m)) =>
            Len(webhooks') = Len(webhooks) + Cardinality(Inbound(m))]_vars

\* C14: a step that changes connectionState, isConnected or qrDinamic is a
\* run of the connection.update handler; no request handler, from routing to
\* its answer after an awaited send, changes any of them
C14_HandlersNeverWriteState ==
    /\ [][lifecycle' # lifecycle =>
            \E s \in 1..MaxSockets, u \in Updates : ConnectionUpdate(s, u)]_vars
    /\ [][(sends' # sends \/ webhookUrl' # webhookUrl \/ connecting' > connecting)
            => UNCHANGED lifecycle]_vars

\* C14 witness: handlers have run (the webhook was reconfigured, a connect
\* was requested, a send is awaited) and the state is still connected with
\* the cached pairing code
C14_Witness ==
    /\ webhookUrl = "http://hook-b"
    /\ sends # <<>>
    /\ connecting > 0
    /\ connectionState = "open"
    /\ Truthy(qrDinamic)

\* C15: a reconfiguration installs the URL of its body and leaves the posts
\* in flight as they are; a post started afterwards goes to the URL that is
\* configured when it starts; and every post has one target: the URL posted
\* to is the destination of its payload
C15_OneTargetPerDelivery ==
    /\ [][\A req \in WebhookRequests :
            (webhookUrl' # webhookUrl /\ Http(req)) =>
               webhookUrl' = req.body.url /\ webhooks' = webhooks]_vars
    /\ [][Len(webhooks') > Len(webhooks) =>
            /\ webhooks'[Len(webhooks')].url = webhookUrl
            /\ SubSeq(webhooks', 1, Len(webhooks)) = webhooks
            /\ webhookUrl' = webhookUrl]_vars
    /\ [](\A i \in 1..Len(webhooks) : webhooks[i].url = webhooks[i].destination)

\* C15 witness: a post to the old URL is still in flight after the URL was
\* replaced, and the next post went to the new URL
C15_Witness ==
    /\ Len(webhooks) = 2
    /\ webhooks[1].url = "http://hook-a"
    /\ webhooks[2].url = "http://hook-b"
    /\ webhookUrl = "http://hook-b"

\* C16: every authenticated POST /instance/connect and POST /instance/create
\* calls connectWhatsApp once, whatever its body is
C16_ConnectRoutesConnect ==
    \A req \in ConnectRequests :
        (started /\ Truthy(authKey) /\ authenticate(req)) =>
            /\ Dispatch(req).effect = "connect"
            /\ Pending < MaxPending =>
                  ENABLED (Http(req) /\ connecting' = connecting + 1)

\* a request that names an instance other than the configured one, in the
\* path parameter or in the body field the route reads
NamesOther(req) ==
    \/ req.path \in { <<"instance", "other">>, <<"sendText", "other">>,
                      <<"chat-api", "get-media-base64", "other", "m1">>,
                      <<"webhook", "other">> }
    \/ /\ req.path \in { <<"instance", "create">>, <<"messages-api">> }
       /\ req.body.instanceName = "other"

\* C17: an authenticated request that names another instance is answered 404
\* and has no effect: no send, no connect, no new webhook URL
C17_OtherInstanceNotFound ==
    \A req \in Requests :
        (started /\ Truthy(authKey) /\ authenticate(req) /\ NamesOther(req)) =>
            /\ Dispatch(req).status = 404
            /\ Dispatch(req).effect = "none"

\* C18: a send request made while connected starts a sock.sendMessage call,
\* one call per request; when the call fails the route answers 500 with the
\* error's message, the call is removed without another one being started,
\* and connectionState, isConnected and qrDinamic stay as they are
C18_SendFailureIs500 ==
    /\ [](connectionState = "open" =>
            \A req \in SendRequests :
                SendRequest(req) => Dispatch(req).effect = "send")
    /\ [][Len(sends') > Len(sends) =>
            sends' = Append(sends, [sock |-> sock]) /\ UNCHANGED lifecycle]_vars
    /\ [][\A i \in 1..MaxInFlight :
            SendSettle(i, FALSE) =>
               /\ sends' = RemoveAt(sends, i)
               /\ UNCHANGED <<lifecycle, sock, connecting, timers, webhooks>>]_vars
    /\ [](/\ SendReply(FALSE).status = 500
          /\ SendReply(FALSE).error = "true"
          /\ SendReply(FALSE).body = "error.message"
          /\ SendReply(FALSE).effect = "none")

\* C18 witness: connected, with two sends awaited that may fail
C18_Witness ==
    /\ Len(sends) = 2
    /\ connectionState = "open"
    /\ isConnected

\* an authenticated POST /webhook/:instance with enabled set to false
Disables(req) ==
    /\ Truthy(authKey)
    /\ Dispatch(req).ran = "PostWebhook"
    /\ Dispatch(req).status = 200
    /\ req.body.enabled = "false"

\* C19: once the target was reconfigured with enabled false, the notifier
\* starts no post for any message
C19_DisabledTargetPostsNothing ==
    [][\A req \in WebhookRequests :
         (Disables(req) /\ Http(req)) =>
            \A data \in Messages : (sendWebhook(data).posts = webhooks)']_vars

\* every send request that carries the apikey header "secret" is routed and
\* handled when it arrives; the side conditions are the bounds of the model
RequestsProcessed ==
    \A req \in { r \in SendRequests : r.header = "secret" } :
        (/\ started
         /\ Dispatch(req).effect = "send" => InFlight < MaxInFlight)
           => ENABLED Http(req)

\* the calls in flight before a step are still in flight after it
KeepsInFlight ==
    /\ Len(webhooks') >= Len(webhooks)
    /\ SubSeq(webhooks', 1, Len(webhooks)) = webhooks
    /\ Len(sends') >= Len(sends)
    /\ SubSeq(sends', 1, Len(sends)) = sends

\* C20: while an axios.post or a sock.sendMessage is in flight, every
\* connection.update event, messages.upsert event and request is handled
\* when it arrives, and every step that handles one (it changes the
\* lifecycle, the timers, the attempts, or starts a call) leaves the calls
\* in flight where they are
C20_InFlightBlocksNothing ==
    /\ [](InFlight > 0 => EventsProcessed /\ RequestsProcessed)
    /\ [][(\/ lifecycle' # lifecycle
           \/ timers' # timers
           \/ seenSock' # seenSock
           \/ unhandled' # unhandled
           \/ Len(webhooks') > Len(webhooks)
           \/ Len(sends') > Len(sends)) => KeepsInFlight]_vars

\* C20 witness: a delivery and a send are in flight together, and a closure
\* was handled while the send was awaited
C20_Witness ==
    /\ Len(webhooks) = 1
    /\ Len(sends) = 1
    /\ connectionState = "close"
    /\ ~isConnected

\* C21: an exception in the setup of connectWhatsApp is caught inside it (no
\* promise is rejected), schedules one 5000 ms timer and no other, ends the
\* attempt without a socket, and leaves connectionState, isConnected and
\* qrDinamic as they are; the request that called connectWhatsApp was
\* answered 200 before the setup ran
C21_SetupExceptionRetried ==
    /\ [][ConnectThrow =>
            /\ timers' = [timers EXCEPT ![RetryDelayMs] = @ + 1]
            /\ connecting' = connecting - 1
            /\ UNCHANGED <<lifecycle, sock, unhandled>>]_vars
    /\ [](\A req \in ConnectRequests :
            Dispatch(req).effect = "connect" =>
               Dispatch(req).status = 200 /\ Dispatch(req).error = "false")

\* C21 witness: a setup exception happened while connected: its retry timer
\* is pending, the state is still connected and nothing was rejected
C21_Witness ==
    /\ timers[RetryDelayMs] = 1
    /\ timers[ReconnectDelayMs] = 0
    /\ connectionState = "open"
    /\ isConnected
    /\ ~unhandled

\* C22: isConnected is true exactly when connectionState is 'open', so the
\* connected flag and the status field that GET /, GET /instance and
\* GET /instance/status report never contradict each other
C22_StatusRepresentationsAgree ==
    isConnected <=> connectionState = "open"

\* C23: at most one connection attempt is outstanding: the connectWhatsApp
\* calls in progress and the pending timers are at most one together, and
\* at most one socket is live (a socket that has emitted no event yet is
\* live, so while no event was handled at most one socket exists)
C23_OneAttemptOutstanding ==
    /\ Pending <= 1
    /\ seenSock = 0 => sock <= 1

\* C24: whenever isConnected is true, the global sock is the socket whose
\* opened event set isConnected. That socket has had an event handled, so it
\* is at most seenSock, and sock is never below seenSock: the claim makes
\* sock the newest socket an event was handled for
C24_SockIsOpenedSocket ==
    isConnected => sock = seenSock

====
